---- MODULE Spec2Model ----
(***************************************************************************)
(* A model of src/src/main.py: the SOM class (winner search, neighbourhood *)
(* update, training loop with decaying learning rate and radius) and the   *)
(* parallel sweep of main_parallel (a worker pool running                  *)
(* train_and_visualize once per hyperparameter combination).               *)
(*                                                                         *)
(* Floating point numbers are modelled in fixed point: a finite number is  *)
(* <<n, 1>> and stands for n / Scale; NaN is a value of its own, produced  *)
(* and propagated the way IEEE arithmetic produces and propagates it.      *)
(***************************************************************************)
EXTENDS Integers, Sequences, FiniteSets, TLC

\* ------------------------------------------------------------------ bounds
MaxSide == 2        \* map_size[0], map_size[1] range over 1..MaxSide
MaxDim == 2         \* input_dim ranges over 1..MaxDim, vector lengths over 0..MaxDim
MaxData == 2        \* number of samples in the data set, 0..MaxData
MaxEpochs == 2      \* epochs argument of train, 0..MaxEpochs
MaxTrains == 2      \* train calls made on one instance
MaxSeed == 1        \* states of the random generator at construction, 0..MaxSeed
MaxProcs == 2       \* cpu_count(), 1..MaxProcs
MaxTasks == 5       \* hyperparameter combinations of one sweep, 1..MaxTasks

\* Fixed point resolution: 1.0 is Scale units (divisible by 8 and by 3).
Scale == 16 * 3

\* ------------------------------------------------------------- arithmetic
NaN == <<0, 0>>
Fin(n) == <<n, 1>>
IsFin(x) == x[2] = 1
IsNaN(x) == x = NaN
Zero == Fin(0)
One == Fin(Scale)

\* nearest multiple (half up) of a quotient of integers, d > 0
RoundDiv(n, d) == (2 * n + d) \div (2 * d)

\* x + y, x - y, x * y on finite values and NaN (no infinite operand arises)
FAdd(x, y) == IF IsFin(x) /\ IsFin(y) THEN Fin(x[1] + y[1]) ELSE NaN
FSub(x, y) == IF IsFin(x) /\ IsFin(y) THEN Fin(x[1] - y[1]) ELSE NaN
FMul(x, y) == IF IsFin(x) /\ IsFin(y) THEN Fin(RoundDiv(x[1] * y[1], Scale)) ELSE NaN

\* floor of the square root of n, searched in lo .. hi (lo * lo <= n < (hi + 1) * (hi + 1))
RECURSIVE ISqrtIn(_, _, _)
ISqrtIn(n, lo, hi) ==
    IF lo >= hi THEN lo
    ELSE LET mid == (lo + hi + 1) \div 2
         IN IF mid * mid <= n THEN ISqrtIn(n, mid, hi) ELSE ISqrtIn(n, lo, mid - 1)
\* np.sqrt of a non-negative integer, as a fixed point number
FSqrtInt(n) == Fin(ISqrtIn(n * Scale * Scale, 0, (n + 1) * Scale))

\* np.exp(-x) for a finite x >= 0 given in thousandths, to the nearest eighth and
\* never rounded down to 0 (a float exp underflows only far outside the model):
\* exp(0) = 1. The thresholds are ln(16/15), ln(16/13), ... in thousandths.
ExpSteps == <<65, 208, 375, 575, 827, 1163, 1674>>
RECURSIVE ExpEighths(_, _)
ExpEighths(m, k) ==
    IF k > Len(ExpSteps) THEN 1
    ELSE IF m <= ExpSteps[k] THEN 9 - k ELSE ExpEighths(m, k + 1)
FExpNeg(m) == Fin((ExpEighths(m, 1) * Scale) \div 8)

\* ------------------------------------------------------------ the SOM class
VARIABLES
    input_dim,        \* self.input_dim
    map_size,         \* self.map_size, <<H, W>>
    learning_rate,    \* self.learning_rate
    radius,           \* self.radius
    weights,          \* self.weights: cell <<i, j>> (0-based) -> sequence of input_dim numbers
    data,             \* the data set the driver trains on: a sequence of vectors
    pc,               \* "idle", or the position inside train: "epoch", "sample", "update"
    epochs,           \* train's argument
    epoch,            \* train's loop variable
    idx,              \* position of `for input_vector in data` (1-based)
    initial_lr,       \* train's local
    initial_radius,   \* train's local
    winner_coords,    \* train's local, <<i, j>>
    raised,           \* exception that ended the last train call, or "none"
    ctor,             \* history: the constructor's learning_rate and radius
    trains,           \* history: number of train calls made
    entry,            \* history: self.weights and the epochs argument when the running/last train call began
    last              \* history: the last _update_weights call (weights before it, its arguments)

somVars == <<input_dim, map_size, learning_rate, radius, weights, data, pc, epochs, epoch,
             idx, initial_lr, initial_radius, winner_coords, raised, ctor, trains, entry, last>>

\* the state of main_parallel's sweep
VARIABLES
    nprocs,       \* cpu_count(): the number of worker processes of the Pool
    params,       \* edge_params: the sequence of <<learning_rate, radius, epochs>> combinations
    bad,          \* the combinations whose training or rendering raises
    queue,        \* the chunks of tasks (as indices into params) no worker has taken yet
    worker,       \* per worker: its chunk, its position in it, its position in train_and_visualize
    outcome,      \* per task: "pending", "done" or the exception it raised
    dir_exists,   \* os.path.exists(output_directory)
    written,      \* the <<task, filepath>> pairs plt.savefig has written
    failed,       \* a chunk has reported an exception
    map_state     \* pool.map: "running", "returned" or "raised"

poolVars == <<nprocs, params, bad, queue, worker, outcome, dir_exists, written, failed,
              map_state>>

vars == <<somVars, poolVars>>

Cells(H, W) == (0 .. H - 1) \X (0 .. W - 1)

\* the sequence <<F(1), ..., F(n)>>
RECURSIVE Tabulate(_, _)
Tabulate(F(_), n) == IF n = 0 THEN <<>> ELSE Append(Tabulate(F, n - 1), F(n))

\* np.random.rand(H, W, D): values in [0, 1), a function of the generator's state
Rand(seed, i, j, k) == Fin(((seed + 3 * i + 5 * j + 7 * k) % 4) * (Scale \div 4))
RandomWeights(seed, H, W, D) ==
    [c \in Cells(H, W) |-> Tabulate(LAMBDA k : Rand(seed, c[1], c[2], k), D)]

\* the data sets: N vectors of length L with components 0.0 and 1.0
Sample(L, n) == Tabulate(LAMBDA c : Fin(((n + c) % 2) * Scale), L)
DataSet(L, N) == Tabulate(LAMBDA n : Sample(L, n), N)

Rates == {Fin(Scale \div 2), One}
Radii == {Zero, One}

\* numpy broadcasting of a trailing axis of length D against a vector of length L
Broadcastable(D, L) == D = L \/ D = 1 \/ L = 1
BroadcastLen(D, L) == IF D = 1 THEN L ELSE D
At(x, k) == IF Len(x) = 1 THEN x[1] ELSE x[k]
\* x - y along the broadcast axis
Minus(x, y) == Tabulate(LAMBDA k : FSub(At(x, k), At(y, k)), BroadcastLen(Len(y), Len(x)))

\* np.linalg.norm along the last axis, kept as the sum of squares (the square root
\* is monotone, so the argmin is the same); NaN as soon as a component is NaN
RECURSIVE SumSquares(_, _)
SumSquares(x, k) == IF k > Len(x) THEN Zero ELSE FAdd(FMul(x[k], x[k]), SumSquares(x, k + 1))
Norm(x) == SumSquares(x, 1)

\* np.unravel_index(p, (H, W))
Unravel(p, W) == <<p \div W, p % W>>

\* ndarray.argmin over the flattened (row-major) array d[0 .. n-1]: the running
\* minimum is replaced when the element is not >= it; a NaN ends the scan
\* (a scan that keeps the last minimum instead of the first)
RECURSIVE ArgMinScanLast(_, _, _, _)
ArgMinScanLast(d, n, p, best) ==
    IF p >= n \/ IsNaN(d[best]) THEN best
    ELSE IF ~(IsFin(d[p]) /\ d[p][1] > d[best][1]) THEN ArgMinScanLast(d, n, p + 1, p)
    ELSE ArgMinScanLast(d, n, p + 1, best)

RECURSIVE ArgMinScan(_, _, _, _)
ArgMinScan(d, n, p, best) ==
    IF p >= n \/ IsNaN(d[best]) THEN best
    ELSE IF ~(IsFin(d[p]) /\ d[p][1] >= d[best][1]) THEN ArgMinScan(d, n, p + 1, p)
    ELSE ArgMinScan(d, n, p + 1, best)
ArgMin(d, n) == ArgMinScan(d, n, 1, 0)

\* SOM._find_winner: <<ok, coords>>; ok is FALSE when the subtraction cannot broadcast
distances(w, H, W, v) == [p \in 0 .. H * W - 1 |-> Norm(Minus(w[Unravel(p, W)], v))]
find_winner(w, H, W, D, v) ==
    IF ~Broadcastable(D, Len(v)) THEN <<FALSE, <<0, 0>>>>
    ELSE <<TRUE, Unravel(ArgMin(distances(w, H, W, v), H * W), W)>>

\* dist_to_winner of _update_weights. np.meshgrid(x, y) with x = arange(H) and
\* y = arange(W) returns arrays of shape (W, H) whose entry [a, b] is x[b] and y[a],
\* so entry [a, b] is sqrt((b - winner[0])^2 + (a - winner[1])^2).
DistShape(H, W) == (0 .. W - 1) \X (0 .. H - 1)
dist_to_winner(H, W, winner) ==
    [e \in DistShape(H, W) |->
        FSqrtInt((e[2] - winner[1]) * (e[2] - winner[1]) + (e[1] - winner[2]) * (e[1] - winner[2]))]

\* mask = dist_to_winner <= self.radius
mask(dist, r) == dist[1] <= r[1]

\* np.exp(-dist / (2 * r ** 2)): with r = 0 the quotient is nan for dist = 0 and
\* -inf otherwise, and exp gives nan and 0.0
ExpTerm(dist, r) ==
    IF r[1] = 0 THEN (IF dist[1] = 0 THEN NaN ELSE Zero)
    ELSE FExpNeg((dist[1] * 1000 * Scale) \div (2 * r[1] * r[1]))

\* influence = np.exp(...) * mask
influence(dist, r) == FMul(ExpTerm(dist, r), IF mask(dist, r) THEN One ELSE Zero)

\* SOM._update_weights: <<status, weights after>>. delta = input_vector - weights
\* must broadcast; delta[:, :, 0] must exist; lr * influence (shape (W, H)) times
\* delta[:, :, i] (shape (H, W)) must fit weights[:, :, i], which it does only for
\* H = W. Every error is raised before the first component is written.
update_weights(w, H, W, D, lr, r, v, winner) ==
    IF ~Broadcastable(D, Len(v)) THEN <<"ValueError", w>>
    ELSE IF BroadcastLen(D, Len(v)) < 1 THEN <<"IndexError", w>>
    ELSE IF H # W THEN <<"ValueError", w>>
    ELSE LET dist == dist_to_winner(H, W, winner)
             delta == [c \in Cells(H, W) |-> Minus(v, w[c])]
         IN <<"ok", [c \in Cells(H, W) |->
                        LET step == FMul(lr, influence(dist[c], r))
                            d == delta[c]
                        IN Tabulate(LAMBDA k : FAdd(w[c][k], FMul(step, d[k])), D)]>>

NoCall == [called |-> FALSE, status |-> "none", before |-> <<>>, v |-> <<>>,
           winner |-> <<0, 0>>, lr |-> Zero, r |-> Zero]

\* SOM.__init__(input_dim, map_size, data, learning_rate, radius) with the generator
\* in state seed, and the data set the driver holds
Construct(D, size, lr, r, seed, L, N) ==
    /\ input_dim = D
    /\ map_size = size
    /\ learning_rate = lr
    /\ radius = r
    /\ weights = RandomWeights(seed, size[1], size[2], D)
    /\ data = DataSet(L, N)
    /\ pc = "idle"
    /\ epochs = 0 /\ epoch = 0 /\ idx = 0
    /\ initial_lr = Zero /\ initial_radius = Zero
    /\ winner_coords = <<0, 0>>
    /\ raised = "none"
    /\ ctor = [lr |-> lr, r |-> r]
    /\ trains = 0
    /\ entry = [w |-> weights, E |-> 0]
    /\ last = NoCall

SomInit ==
    \E D \in 1 .. MaxDim, size \in (1 .. MaxSide) \X (1 .. MaxSide), lr \in Rates, r \in Radii,
       seed \in 0 .. MaxSeed, L \in 0 .. MaxDim, N \in 0 .. MaxData :
        Construct(D, size, lr, r, seed, L, N)

\* train's locals are gone once the call has returned or raised
Leave(exc) ==
    /\ pc' = "idle"
    /\ raised' = exc
    /\ epochs' = 0 /\ epoch' = 0 /\ idx' = 0
    /\ initial_lr' = Zero /\ initial_radius' = Zero
    /\ winner_coords' = <<0, 0>>

\* 1 - epoch / float(epochs)
Decay(e, E) == FSub(One, Fin(RoundDiv(e * Scale, E)))

\* SOM.train(data, E): entry
Train(E) ==
    /\ pc = "idle"
    /\ trains < MaxTrains
    /\ initial_lr' = learning_rate
    /\ initial_radius' = radius
    /\ epochs' = E
    /\ epoch' = 0
    /\ pc' = "epoch"
    /\ raised' = "none"
    /\ trains' = trains + 1
    /\ entry' = [w |-> weights, E |-> E]
    /\ UNCHANGED <<input_dim, map_size, learning_rate, radius, weights, data, idx,
                   winner_coords, ctor, last>>
    /\ UNCHANGED poolVars

\* (the decay taken one epoch late: 1 - (epoch + 1) / float(epochs))
EpochBeginOffByOne ==
    /\ pc = "epoch"
    /\ epoch < epochs
    /\ learning_rate' = FMul(initial_lr, Decay(epoch + 1, epochs))
    /\ radius' = FMul(initial_radius, Decay(epoch + 1, epochs))
    /\ idx' = 1
    /\ pc' = "sample"
    /\ UNCHANGED <<input_dim, map_size, weights, data, epochs, epoch, initial_lr,
                   initial_radius, winner_coords, raised, ctor, trains, entry, last>>
    /\ UNCHANGED poolVars

\* (the loop run over range(epochs + 1): with epochs = 0 the division raises)
EpochBeginInclusive ==
    /\ pc = "epoch"
    /\ epoch <= epochs
    /\ IF epochs = 0
       THEN /\ Leave("ZeroDivisionError")
            /\ UNCHANGED <<learning_rate, radius>>
       ELSE /\ learning_rate' = FMul(initial_lr, Decay(epoch, epochs))
            /\ radius' = FMul(initial_radius, Decay(epoch, epochs))
            /\ idx' = 1
            /\ pc' = "sample"
            /\ UNCHANGED <<epochs, epoch, initial_lr, initial_radius, winner_coords, raised>>
    /\ UNCHANGED <<input_dim, map_size, weights, data, ctor, trains, entry, last>>
    /\ UNCHANGED poolVars

\* for epoch in range(epochs): the next epoch sets self.learning_rate and self.radius
EpochBegin ==
    /\ pc = "epoch"
    /\ epoch < epochs
    /\ learning_rate' = FMul(initial_lr, Decay(epoch, epochs))
    /\ radius' = FMul(initial_radius, Decay(epoch, epochs))
    /\ idx' = 1
    /\ pc' = "sample"
    /\ UNCHANGED <<input_dim, map_size, weights, data, epochs, epoch, initial_lr,
                   initial_radius, winner_coords, raised, ctor, trains, entry, last>>
    /\ UNCHANGED poolVars

\* range(epochs) is exhausted: train returns
TrainReturn ==
    /\ pc = "epoch"
    /\ epoch >= epochs
    /\ Leave("none")
    /\ UNCHANGED <<input_dim, map_size, learning_rate, radius, weights, data, ctor,
                   trains, entry, last>>
    /\ UNCHANGED poolVars

\* for input_vector in data: winner_coords = self._find_winner(input_vector)
FindWinner ==
    /\ pc = "sample"
    /\ idx <= Len(data)
    /\ LET res == find_winner(weights, map_size[1], map_size[2], input_dim, data[idx])
       IN IF res[1]
          THEN /\ winner_coords' = res[2]
               /\ pc' = "update"
               /\ UNCHANGED <<epochs, epoch, idx, initial_lr, initial_radius, raised>>
          ELSE Leave("ValueError")
    /\ UNCHANGED <<input_dim, map_size, learning_rate, radius, weights, data, ctor,
                   trains, entry, last>>
    /\ UNCHANGED poolVars

\* the data set is exhausted: on to the next epoch
EpochEnd ==
    /\ pc = "sample"
    /\ idx > Len(data)
    /\ epoch' = epoch + 1
    /\ pc' = "epoch"
    /\ UNCHANGED <<input_dim, map_size, learning_rate, radius, weights, data, epochs, idx,
                   initial_lr, initial_radius, winner_coords, raised, ctor, trains, entry,
                   last>>
    /\ UNCHANGED poolVars

\* self._update_weights(input_vector, winner_coords)
UpdateWeights ==
    /\ pc = "update"
    /\ LET res == update_weights(weights, map_size[1], map_size[2], input_dim,
                                 learning_rate, radius, data[idx], winner_coords)
       IN /\ weights' = res[2]
          /\ last' = [called |-> TRUE, status |-> res[1], before |-> weights,
                      v |-> data[idx], winner |-> winner_coords,
                      lr |-> learning_rate, r |-> radius]
          /\ IF res[1] = "ok"
             THEN /\ idx' = idx + 1
                  /\ pc' = "sample"
                  /\ UNCHANGED <<epochs, epoch, initial_lr, initial_radius, winner_coords,
                                 raised>>
             ELSE Leave(res[1])
    /\ UNCHANGED <<input_dim, map_size, learning_rate, radius, data, ctor, trains, entry>>
    /\ UNCHANGED poolVars

SomNext ==
    \/ \E E \in 0 .. MaxEpochs : Train(E)
    \/ EpochBegin
    \/ TrainReturn
    \/ FindWinner
    \/ EpochEnd
    \/ UpdateWeights

\* ------------------------------------------------- main_parallel's sweep
\* itertools.product(learning_rates, radii, epochs_list) with epochs_list = [1]
Product(lrs, rs) ==
    Tabulate(LAMBDA t : <<lrs[((t - 1) \div Len(rs)) + 1], rs[((t - 1) % Len(rs)) + 1], 1>>,
             Len(lrs) * Len(rs))

\* the hyperparameter lists of a sweep: distinct values
LearningRates(n) == Tabulate(LAMBDA t : t, n)
RadiiList(n) == Tabulate(LAMBDA t : t, n)

\* f"LR_{learning_rate}_Radius_{radius}_Epochs_{epochs}.png" under output_directory
Filepath(p) == <<"result/test", "LR_", p[1], "_Radius_", p[2], "_Epochs_", p[3], ".png">>

\* Pool.map's chunksize: divmod(len(iterable), len(pool) * 4), rounded up
Chunksize(n, procs) ==
    IF n % (procs * 4) = 0 THEN n \div (procs * 4) ELSE n \div (procs * 4) + 1

\* the task batches of Pool.map: consecutive slices of chunksize tasks
RECURSIVE Chunks(_, _, _)
Chunks(from, n, size) ==
    IF from > n THEN <<>>
    ELSE LET to == IF from + size - 1 > n THEN n ELSE from + size - 1
         IN <<Tabulate(LAMBDA t : from + t - 1, to - from + 1)>> \o Chunks(to + 1, n, size)

Idle == [chunk |-> <<>>, pos |-> 0, at |-> "idle"]

\* with Pool(num_processes) as pool: pool.map(train_and_visualize, edge_params)
Sweep(procs, nl, nr, raising, exists) ==
    /\ nprocs = procs
    /\ params = Product(LearningRates(nl), RadiiList(nr))
    /\ bad = raising
    /\ queue = Chunks(1, nl * nr, Chunksize(nl * nr, procs))
    /\ worker = [w \in 1 .. procs |-> Idle]
    /\ outcome = [t \in 1 .. nl * nr |-> "pending"]
    /\ dir_exists = exists
    /\ written = {}
    /\ failed = FALSE
    /\ map_state = "running"

PoolInit ==
    \E procs \in 1 .. MaxProcs, nl \in 1 .. MaxTasks, nr \in 1 .. 2, exists \in BOOLEAN :
        /\ nl * nr <= MaxTasks
        /\ \E raising \in {{}} \cup {{t} : t \in 1 .. nl * nr} :
              Sweep(procs, nl, nr, raising, exists)

Task(w) == worker[w].chunk[worker[w].pos]

\* a worker process takes the next chunk off the task queue
TakeChunk(w) ==
    /\ worker[w].at = "idle"
    /\ queue # <<>>
    /\ worker' = [worker EXCEPT ![w] = [chunk |-> Head(queue), pos |-> 1, at |-> "train"]]
    /\ queue' = Tail(queue)
    /\ UNCHANGED <<nprocs, params, bad, outcome, dir_exists, written, failed, map_state>>
    /\ UNCHANGED somVars

\* an exception in train_and_visualize ends the worker's chunk: the rest of the
\* chunk is not run, and the chunk reports the exception
Raise(w, exc) ==
    /\ outcome' = [outcome EXCEPT ![Task(w)] = exc]
    /\ worker' = [worker EXCEPT ![w] = Idle]
    /\ failed' = TRUE

\* train_and_visualize up to the title: construct, train, extract, render
TrainAndRender(w) ==
    /\ worker[w].at = "train"
    /\ IF Task(w) \in bad
       THEN Raise(w, "ValueError")
       ELSE /\ worker' = [worker EXCEPT ![w].at = "exists"]
            /\ UNCHANGED <<outcome, failed>>
    /\ UNCHANGED <<nprocs, params, bad, queue, dir_exists, written, map_state>>
    /\ UNCHANGED somVars

\* if not os.path.exists(output_directory):
CheckExists(w) ==
    /\ worker[w].at = "exists"
    /\ worker' = [worker EXCEPT ![w].at = IF dir_exists THEN "savefig" ELSE "makedirs"]
    /\ UNCHANGED <<nprocs, params, bad, queue, outcome, dir_exists, written, failed, map_state>>
    /\ UNCHANGED somVars

\* os.makedirs(output_directory): FileExistsError when the directory exists by now
MakeDirs(w) ==
    /\ worker[w].at = "makedirs"
    /\ IF dir_exists
       THEN /\ Raise(w, "FileExistsError")
            /\ UNCHANGED dir_exists
       ELSE /\ dir_exists' = TRUE
            /\ worker' = [worker EXCEPT ![w].at = "savefig"]
            /\ UNCHANGED <<outcome, failed>>
    /\ UNCHANGED <<nprocs, params, bad, queue, written, map_state>>
    /\ UNCHANGED somVars

\* plt.savefig(filepath); plt.close(fig); then the next task of the chunk
SaveFig(w) ==
    /\ worker[w].at = "savefig"
    /\ written' = written \cup {<<Task(w), Filepath(params[Task(w)])>>}
    /\ outcome' = [outcome EXCEPT ![Task(w)] = "done"]
    /\ worker' = [worker EXCEPT ![w] =
                     IF worker[w].pos < Len(worker[w].chunk)
                     THEN [worker[w] EXCEPT !.pos = worker[w].pos + 1, !.at = "train"]
                     ELSE Idle]
    /\ UNCHANGED <<nprocs, params, bad, queue, dir_exists, failed, map_state>>
    /\ UNCHANGED somVars

\* every chunk has reported: pool.map returns, or raises the exception of a chunk
MapDone ==
    /\ map_state = "running"
    /\ queue = <<>>
    /\ \A w \in 1 .. nprocs : worker[w].at = "idle"
    /\ map_state' = IF failed THEN "raised" ELSE "returned"
    /\ UNCHANGED <<nprocs, params, bad, queue, worker, outcome, dir_exists, written, failed>>
    /\ UNCHANGED somVars

PoolNext ==
    \/ \E w \in 1 .. nprocs : TakeChunk(w)
    \/ \E w \in 1 .. nprocs : TrainAndRender(w)
    \/ \E w \in 1 .. nprocs : CheckExists(w)
    \/ \E w \in 1 .. nprocs : MakeDirs(w)
    \/ \E w \in 1 .. nprocs : SaveFig(w)
    \/ MapDone

\* the SOM class on its own: one instance, no sweep running
Init == SomInit /\ Sweep(1, 1, 1, {}, TRUE)
Next == SomNext
Spec == Init /\ [][Next]_vars

\* the sweep on its own
InitPool == PoolInit /\ Construct(1, <<1, 1>>, One, One, 0, 1, 1)
NextPool == PoolNext
SpecPool == InitPool /\ [][NextPool]_vars

\* ------------------------------------------------------------------ claims
H == map_size[1]
W == map_size[2]
AllFinite(w) == \A c \in DOMAIN w : \A k \in 1 .. Len(w[c]) : IsFin(w[c][k])
Less(x, y) == IsFin(x) /\ IsFin(y) /\ x[1] < y[1]
\* the square of the grid distance between two cells
Grid2(c, e) == (c[1] - e[1]) * (c[1] - e[1]) + (c[2] - e[2]) * (c[2] - e[2])
\* sqrt(Grid2(c, e)) > r, for a finite r >= 0
Beyond(c, e, r) == Grid2(c, e) * Scale * Scale > r[1] * r[1]
\* the last _update_weights call returned normally
Updated == last.called /\ last.status = "ok"

\* C1 (as claimed): after _update_weights with radius r > 0, every cell whose grid
\* distance to the winner exceeds r holds exactly the weight vector it held before.
C1_FarCellsUnchanged ==
    (Updated /\ last.r[1] > 0) =>
        \A c \in Cells(H, W) : Beyond(c, last.winner, last.r) => weights[c] = last.before[c]

\* C2 (as claimed): after winner = _find_winner(v) and a _update_weights(v, winner)
\* that returns, with learning rate in (0, 1] and radius > 0, the winner's weight
\* vector is strictly closer to v than before whenever it differed from v.
C2_WinnerMovesCloser ==
    (/\ Updated
     /\ Len(last.v) = input_dim
     /\ last.lr[1] > 0 /\ last.lr[1] <= Scale
     /\ last.r[1] > 0
     /\ last.before[last.winner] # last.v) =>
        /\ Less(Norm(Minus(weights[last.winner], last.v)),
                Norm(Minus(last.before[last.winner], last.v)))

\* C3 (as claimed): with radius 0, _update_weights moves only the winner cell, to
\* w + alpha * (v - w), leaves every other cell as it was, and every component finite.
C3_ZeroRadiusOnlyWinner ==
    (Updated /\ last.r = Zero /\ Len(last.v) = input_dim /\ AllFinite(last.before)) =>
        /\ AllFinite(weights)
        /\ \A c \in Cells(H, W) :
              IF c = last.winner
              THEN \A k \in 1 .. input_dim :
                      weights[c][k] = FAdd(last.before[c][k],
                                           FMul(last.lr, FSub(last.v[k], last.before[c][k])))
              ELSE weights[c] = last.before[c]

\* a0 * (1 - e / E)
Decayed(a0, e, E) == FMul(a0, FSub(One, Fin(RoundDiv(e * Scale, E))))

\* C4: during the first train call on an instance, the learning rate and the radius
\* in force for every sample of epoch e are a0 * (1 - e/E) and r0 * (1 - e/E); they
\* never increase from one step to the next, the factor is never zero, and the call
\* returns with the values of epoch E - 1.
C4_DecayLaw ==
    [][/\ (trains' = 1 /\ pc' \in {"sample", "update"}) =>
            /\ epoch' \in 0 .. epochs' - 1
            /\ learning_rate' = Decayed(ctor.lr, epoch', epochs')
            /\ radius' = Decayed(ctor.r, epoch', epochs')
            /\ FSub(One, Fin(RoundDiv(epoch' * Scale, epochs')))[1] > 0
            /\ learning_rate'[1] <= learning_rate[1]
            /\ radius'[1] <= radius[1]
       /\ (trains = 1 /\ pc = "epoch" /\ pc' = "idle" /\ epochs >= 1) =>
            /\ learning_rate' = Decayed(ctor.lr, epochs - 1, epochs)
            /\ radius' = Decayed(ctor.r, epochs - 1, epochs)
            /\ learning_rate'[1] > 0
      ]_vars

C4_Witness ==
    /\ trains = 1 /\ pc = "update" /\ epochs = 2 /\ epoch = 1
    /\ ctor.lr = Fin(Scale \div 2) /\ learning_rate = Fin(Scale \div 4)
    /\ ctor.r = One /\ radius = Fin(Scale \div 2)

\* C5 (as claimed): epoch 0 of every train call uses the constructor's learning rate
\* and radius.
C5_StartValuesFixed ==
    (pc \in {"sample", "update"} /\ epoch = 0) =>
        (learning_rate = ctor.lr /\ radius = ctor.r)

\* C6: a train call with epochs = 0, or on an empty data sequence, raises nothing and
\* leaves every weight vector as it was when the call began.
C6_NoOpTraining ==
    (trains >= 1 /\ (entry.E = 0 \/ Len(data) = 0)) =>
        (raised = "none" /\ weights = entry.w)

\* a second train call, with epochs = 0 and data at hand, has returned on a grid
\* that the first call had trained
C6_Witness ==
    /\ pc = "idle" /\ trains = 2 /\ raised = "none"
    /\ entry.E = 0 /\ Len(data) > 0
    /\ Updated /\ weights # last.before /\ weights = entry.w

\* cell c comes before cell e in row-major order
RowMajorBefore(c, e) == c[1] < e[1] \/ (c[1] = e[1] /\ c[2] < e[2])

\* C7: _find_winner(v), for v of dimension input_dim on a grid of numbers, returns a
\* cell of the grid at minimum distance to v, the first such cell in row-major order,
\* and does not modify the grid.
C7_FindWinner ==
    [][(pc = "sample" /\ pc' = "update" /\ Len(data[idx]) = input_dim /\ AllFinite(weights)) =>
          LET v == data[idx]
              dist(c) == Norm(Minus(weights[c], v))
          IN /\ weights' = weights
             /\ winner_coords' \in Cells(H, W)
             /\ \A c \in Cells(H, W) :
                   /\ ~Less(dist(c), dist(winner_coords'))
                   /\ RowMajorBefore(c, winner_coords') => Less(dist(winner_coords'), dist(c))
      ]_vars

\* a tie for the minimum, broken towards the first cell, away from cell <<0, 0>>
C7_Witness ==
    /\ pc = "update" /\ Len(data[idx]) = input_dim /\ AllFinite(weights)
    /\ winner_coords # <<0, 0>>
    /\ \E c \in Cells(H, W) :
          /\ c # winner_coords
          /\ Norm(Minus(weights[c], data[idx])) = Norm(Minus(weights[winner_coords], data[idx]))

\* C8 (as claimed): a vector whose length differs from input_dim is never accepted:
\* _find_winner does not return a winner for it and the grid stays as it was.
C8_ShapeMismatchRejected ==
    /\ (pc = "update") => Len(data[idx]) = input_dim
    /\ (last.called /\ Len(last.v) # input_dim) => (last.status # "ok" /\ weights = last.before)

\* C9 (as claimed): when pool.map has ended, every task of the sweep has been run:
\* no task is left unrun because another one failed.
C9_SiblingsStillRun ==
    (map_state # "running") => \A t \in 1 .. Len(params) : outcome[t] # "pending"

\* C10 (as claimed): no two tasks write the same file path, and a task fails only on
\* its own account, never at the directory's check-then-create.
C10_NoContention ==
    /\ \A x, y \in written : x[2] = y[2] => x[1] = y[1]
    /\ \A t \in 1 .. Len(params) : outcome[t] \notin {"pending", "done"} => t \in bad

====
